---- MODULE Spec2Model ----
(***************************************************************************)
(* The lint rule no-unnecessary-optional-chaining-and-coalesce, as a state *)
(* machine: the host parses the file, calls create(), streams the chain    *)
(* wrappers and the `??` expressions to the rule's two visitors, applies   *)
(* the fixes that do not overlap, and runs the next pass on the new text.  *)
(*                                                                         *)
(* The file under analysis is one expression, kept as its token sequence.  *)
(* Tokens are strings: a name, ".", "?.", "[", "]", "(", ")", "," and      *)
(* "??".  With this alphabet the characters `?.` occur in the text exactly *)
(* where a "?." token stands, so String.replace('?.', ...) on the text of  *)
(* a node is the replacement of the first "?." token of its token range.   *)
(***************************************************************************)
EXTENDS Integers, Sequences, FiniteSets, TLC

VARIABLES
    text,       \* the source text of the file: a sequence of tokens
    cfg,        \* the parser services: program present, compiler options
    pc,         \* "create" | "traverse" | "done" | "broken"
    ast,        \* the tree of the current pass (NoNode before the first parse)
    queue,      \* the nodes the host still has to hand to a visitor
    reports,    \* the diagnostics of the current pass, in report order
    queried,    \* ranges of the nodes whose type was looked up in this pass
    applied,    \* the fixes the host applied at the end of the last pass
    pass,       \* number of the current pass, from 1
    text0       \* the text the first pass started from

vars == <<text, cfg, pc, ast, queue, reports, queried, applied, pass, text0>>

(***************************************************************************)
(* Names of the fixture declarations.  Each name stands for a declared     *)
(* value; used as a property name or as a computed key it names a property *)
(* of that declared type.                                                  *)
(***************************************************************************)
Names == {"o", "n", "g", "y", "w", "u", "z", "d", "e"}

Tok(toks, i) == IF i \in 1..Len(toks) THEN toks[i] ELSE "EOF"

----------------------------------------------------------------------------
(* The syntax tree, with the node shapes of ESTree.  A range is the pair   *)
(* of the first and the last token of the node; parentheses around a node  *)
(* are not part of its range, but they are part of the range of the node   *)
(* that has it as first or last operand.                                   *)

NoNode == [type |-> "None"]

Identifier(name, i) ==
    [type |-> "Identifier", name |-> name, range |-> <<i, i>>]

MemberExpression(object, property, computed, optional, s, e) ==
    [type |-> "MemberExpression", object |-> object, property |-> property,
     computed |-> computed, optional |-> optional, range |-> <<s, e>>]

CallExpression(callee, arguments, optional, s, e) ==
    [type |-> "CallExpression", callee |-> callee, arguments |-> arguments,
     optional |-> optional, range |-> <<s, e>>]

LogicalExpression(left, right, s, e) ==
    [type |-> "LogicalExpression", operator |-> "??", left |-> left,
     right |-> right, range |-> <<s, e>>]

ChainExpression(expression) ==
    [type |-> "ChainExpression", expression |-> expression,
     range |-> expression.range]

SequenceExpression(expressions, s, e) ==
    [type |-> "SequenceExpression", expressions |-> expressions,
     range |-> <<s, e>>]

ParseFail == [ok |-> FALSE]

ParseOk(node, start, pos) ==
    [ok |-> TRUE, node |-> node, start |-> start, pos |-> pos]

RECURSIVE ParseExpression(_, _)
RECURSIVE ParsePostfix(_, _, _, _, _)
RECURSIVE ParseArguments(_, _, _)
RECURSIVE ParseSequenceRest(_, _, _, _)
RECURSIVE ParseCoalesce(_, _)

(* The links after a primary expression.  A run of links with at least one *)
(* `?.` in it is wrapped in one ChainExpression at its outermost link.     *)
ParsePostfix(toks, node, start, i, anyOptional) ==
    LET t == Tok(toks, i)
        optional == t = "?."
        j == IF optional THEN i + 1 ELSE i
        u == Tok(toks, j)
    IN  IF t = "." \/ (optional /\ u \in Names)
        THEN IF Tok(toks, i + 1) \in Names
             THEN ParsePostfix(toks,
                      MemberExpression(node, Identifier(toks[i + 1], i + 1),
                                       FALSE, optional, start, i + 1),
                      start, i + 2, anyOptional \/ optional)
             ELSE ParseFail
        ELSE IF u = "[" /\ (optional \/ t = "[")
        THEN LET r == ParseExpression(toks, j + 1)
             IN  IF r.ok /\ Tok(toks, r.pos) = "]"
                 THEN ParsePostfix(toks,
                          MemberExpression(node, r.node, TRUE, optional,
                                           start, r.pos),
                          start, r.pos + 1, anyOptional \/ optional)
                 ELSE ParseFail
        ELSE IF u = "(" /\ (optional \/ t = "(")
        THEN LET r == ParseArguments(toks, j + 1, <<>>)
             IN  IF r.ok
                 THEN ParsePostfix(toks,
                          CallExpression(node, r.node, optional, start,
                                         r.pos - 1),
                          start, r.pos, anyOptional \/ optional)
                 ELSE ParseFail
        ELSE IF optional
        THEN ParseFail
        ELSE ParseOk(IF anyOptional THEN ChainExpression(node) ELSE node,
                     start, i)

(* The arguments of a call, from the token after "(" to the ")".           *)
ParseArguments(toks, i, acc) ==
    IF Tok(toks, i) = ")" /\ acc = <<>>
    THEN ParseOk(acc, i, i + 1)
    ELSE LET r == ParseExpression(toks, i)
         IN  IF ~r.ok
             THEN ParseFail
             ELSE IF Tok(toks, r.pos) = ","
             THEN ParseArguments(toks, r.pos + 1, Append(acc, r.node))
             ELSE IF Tok(toks, r.pos) = ")"
             THEN ParseOk(Append(acc, r.node), i, r.pos + 1)
             ELSE ParseFail

(* A comma expression after its expression r has been parsed: acc holds    *)
(* the expressions before r.  One expression alone is no comma expression. *)
ParseSequenceRest(toks, start, acc, r) ==
    IF ~r.ok THEN ParseFail
    ELSE IF Tok(toks, r.pos) = ","
    THEN ParseSequenceRest(toks, start, Append(acc, r.node),
                           ParseExpression(toks, r.pos + 1))
    ELSE IF acc = <<>> THEN r
    ELSE ParseOk(SequenceExpression(Append(acc, r.node), start, r.pos - 1),
                 start, r.pos)

(* expression , expression , ...: where the grammar takes a comma          *)
(* expression, that is in parentheses and as the whole file, but not as an *)
(* argument of a call.                                                     *)
ParseSequence(toks, i) ==
    ParseSequenceRest(toks, i, <<>>, ParseExpression(toks, i))

ParsePrimary(toks, i) ==
    IF Tok(toks, i) \in Names
    THEN ParseOk(Identifier(toks[i], i), i, i + 1)
    ELSE IF Tok(toks, i) = "("
    THEN LET r == ParseSequence(toks, i + 1)
         IN  IF r.ok /\ Tok(toks, r.pos) = ")"
             THEN ParseOk(r.node, i, r.pos + 1)
             ELSE ParseFail
    ELSE ParseFail

ParseUnary(toks, i) ==
    LET p == ParsePrimary(toks, i)
    IN  IF p.ok THEN ParsePostfix(toks, p.node, p.start, p.pos, FALSE)
        ELSE ParseFail

(* left ?? right ?? ..., left-associative; `left` is a ParseOk record.     *)
ParseCoalesce(toks, left) ==
    IF Tok(toks, left.pos) = "??"
    THEN LET r == ParseUnary(toks, left.pos + 1)
         IN  IF r.ok
             THEN ParseCoalesce(toks,
                      ParseOk(LogicalExpression(left.node, r.node,
                                                left.start, r.pos - 1),
                              left.start, r.pos))
             ELSE ParseFail
    ELSE left

ParseExpression(toks, i) ==
    LET l == ParseUnary(toks, i)
    IN  IF l.ok THEN ParseCoalesce(toks, l) ELSE ParseFail

(* The parse of a whole file: no token may be left over.                   *)
Parse(toks) ==
    LET r == ParseSequence(toks, 1)
    IN  IF r.ok /\ r.pos = Len(toks) + 1 THEN r ELSE ParseFail

----------------------------------------------------------------------------
(* Type descriptors of the type checker: flags, and for a union the member *)
(* types.                                                                  *)

Ty(flags) == [flags |-> flags, types |-> <<>>]

UnionTy(types) == [flags |-> "Union", types |-> types]

AnyTy == Ty("Any")
ObjectTy == Ty("Object")
UndefinedTy == Ty("Undefined")

(* The type the checker answers with when it has no node to look at or     *)
(* cannot resolve the type: its flags are those of any.                    *)
ErrorTy == [flags |-> "Any", types |-> <<>>, intrinsicName |-> "error"]

(* The declarations of the fixture: the declared type of each name.        *)
Decl ==
    [x \in Names |->
        CASE x = "o" -> ObjectTy
          [] x = "g" -> ObjectTy
          [] x = "n" -> UnionTy(<<ObjectTy, Ty("Null")>>)
          [] x = "y" -> AnyTy
          [] x = "w" -> Ty("Unknown")
          [] x = "u" -> UndefinedTy
          [] x = "z" -> Ty("Null")
          [] x = "e" -> ErrorTy
          [] x = "d" -> UnionTy(<<ObjectTy, UnionTy(<<ObjectTy, UndefinedTy>>)>>)]

(* The declared type of the value a call of the name returns: `g` is a     *)
(* function that returns a nullable value (getNullable of the tests).      *)
Ret ==
    [x \in Names |->
        CASE x = "g" -> UnionTy(<<ObjectTy, Ty("Null")>>)
          [] x = "y" -> AnyTy
          [] x = "e" -> ErrorTy
          [] OTHER -> ObjectTy]

RECURSIVE Members(_)
RECURSIVE Flatten(_, _)

Flatten(types, i) ==
    IF i > Len(types) THEN <<>>
    ELSE Members(types[i]) \o Flatten(types, i + 1)

(* The member types of a type, unions flattened.                           *)
Members(type) ==
    IF type.flags = "Union" THEN Flatten(type.types, 1) ELSE <<type>>

SelectNonNull(types) ==
    SelectSeq(types, LAMBDA t : t.flags \notin {"Null", "Undefined"})

MakeUnion(types) ==
    IF Len(types) = 1 THEN types[1] ELSE UnionTy(types)

HasNullOrUndefined(type) ==
    \E i \in DOMAIN Members(type) :
        Members(type)[i].flags \in {"Null", "Undefined"}

NonNullable(type) ==
    IF SelectNonNull(Members(type)) = <<>> THEN Ty("Never")
    ELSE MakeUnion(SelectNonNull(Members(type)))

(* Without strict null checks null and undefined are absorbed by every     *)
(* other type.                                                             *)
Widened(type) ==
    IF SelectNonNull(Members(type)) = <<>> THEN type ELSE NonNullable(type)

(* compilerOptions.strictNullChecks as the type checker reads it: the      *)
(* option itself when it is set, and `strict` otherwise.                   *)
StrictNullChecksInEffect(c) ==
    IF c.strictNullChecks = "undefined" THEN c.strict = "true"
    ELSE c.strictNullChecks = "true"

RECURSIVE NameOf(_)

(* The name that decides the declared type of a node.                      *)
NameOf(node) ==
    CASE node.type = "Identifier" -> node.name
      [] node.type = "MemberExpression" -> NameOf(node.property)
      [] node.type = "CallExpression" -> NameOf(node.callee)
      [] node.type = "ChainExpression" -> NameOf(node.expression)
      [] node.type = "LogicalExpression" -> NameOf(node.left)
      [] node.type = "SequenceExpression" ->
            NameOf(node.expressions[Len(node.expressions)])

Operand(node) ==
    IF node.type = "MemberExpression" THEN node.object ELSE node.callee

DeclaredType(node, strict) ==
    LET t == IF node.type = "CallExpression" THEN Ret[NameOf(node)]
             ELSE Decl[NameOf(node)]
    IN  IF strict THEN t ELSE Widened(t)

RECURSIVE TypeOf(_, _)
RECURSIVE ShortCircuits(_, _)

(* Whether the link can yield undefined because its chain stopped early:   *)
(* at its own `?.`, or at a `?.` further in of the same chain.             *)
ShortCircuits(node, strict) ==
    IF ~strict THEN FALSE
    ELSE IF node.optional THEN HasNullOrUndefined(TypeOf(Operand(node), strict))
    ELSE Operand(node).type \in {"MemberExpression", "CallExpression"}
         /\ ShortCircuits(Operand(node), strict)

(* checker.getTypeAtLocation: the inferred type of an expression.          *)
TypeOf(node, strict) ==
    CASE node.type = "Identifier" -> DeclaredType(node, strict)
      [] node.type = "ChainExpression" -> TypeOf(node.expression, strict)
      [] node.type = "SequenceExpression" ->
            TypeOf(node.expressions[Len(node.expressions)], strict)
      [] node.type = "LogicalExpression" ->
            LET l == TypeOf(node.left, strict)
            IN  IF l.flags = "Any" THEN l
                ELSE IF l.flags = "Unknown" \/ HasNullOrUndefined(l)
                THEN MakeUnion(Members(NonNullable(l))
                               \o Members(TypeOf(node.right, strict)))
                ELSE l
      [] OTHER ->
            IF TypeOf(Operand(node), strict).flags \in {"Any", "Unknown"}
            THEN AnyTy
            ELSE IF ShortCircuits(node, strict)
            THEN MakeUnion(Members(DeclaredType(node, strict))
                           \o <<UndefinedTy>>)
            ELSE DeclaredType(node, strict)

RECURSIVE TypeToString(_)
RECURSIVE JoinTypes(_, _)

JoinTypes(types, i) ==
    IF i > Len(types) THEN ""
    ELSE IF i = Len(types) THEN TypeToString(types[i])
    ELSE TypeToString(types[i]) \o " | " \o JoinTypes(types, i + 1)

(* checker.typeToString                                                    *)
TypeToString(type) ==
    CASE type.flags = "Any" -> "any"
      [] type.flags = "Unknown" -> "unknown"
      [] type.flags = "Null" -> "null"
      [] type.flags = "Undefined" -> "undefined"
      [] type.flags = "Never" -> "never"
      [] type.flags = "Object" -> "T"
      [] type.flags = "Union" -> JoinTypes(Members(type), 1)

----------------------------------------------------------------------------
(* The rule.                                                               *)

(* A variant that looks at the members of a union but not inside them.     *)
isNullishShallow(type) ==
    IF type.flags = "Any" \/ type.flags = "Unknown" THEN TRUE
    ELSE IF type.flags = "Null" \/ type.flags = "Undefined" THEN TRUE
    ELSE IF type.flags = "Union"
    THEN \E i \in DOMAIN type.types :
             type.types[i].flags \in {"Any", "Unknown", "Null", "Undefined"}
    ELSE FALSE

RECURSIVE isNullish(_)

isNullish(type) ==
    IF type.flags = "Any" \/ type.flags = "Unknown" THEN TRUE
    ELSE IF type.flags = "Null" \/ type.flags = "Undefined" THEN TRUE
    ELSE IF type.flags = "Union"
    THEN \E i \in DOMAIN type.types : isNullish(type.types[i])
    ELSE FALSE

getTypeString(type) == TypeToString(type)

(* A variant that takes an operand for never nullish when its type could   *)
(* not be looked up.                                                       *)
checkIfNeverNullishUnlessKnown(node, strict) ==
    LET actualNode == IF node.type = "ChainExpression" THEN node.expression
                      ELSE node
        type == TypeOf(actualNode, strict)
    IN  [isNeverNullish |-> type = ErrorTy \/ ~isNullish(type),
         typeString |-> getTypeString(type),
         checked |-> actualNode]

(* `checked` is the node whose type was looked up, after the unwrapping.   *)
checkIfNeverNullish(node, strict) ==
    LET actualNode == IF node.type = "ChainExpression" THEN node.expression
                      ELSE node
        type == TypeOf(actualNode, strict)
    IN  [isNeverNullish |-> ~isNullish(type),
         typeString |-> getTypeString(type),
         checked |-> actualNode]

NoResult == [found |-> FALSE, queried |-> {}]

(* A variant that gives up at a guarded operand instead of searching it.   *)
findOutermostOnly(memberExpr, strict) ==
    IF ~memberExpr.optional THEN NoResult
    ELSE LET objectToCheck == memberExpr.object
         IN  IF objectToCheck.type = "MemberExpression" /\ objectToCheck.optional
             THEN NoResult
             ELSE IF objectToCheck.type = "ChainExpression"
             THEN NoResult
             ELSE IF objectToCheck.type = "CallExpression"
                     /\ objectToCheck.optional
             THEN NoResult
             ELSE LET check == checkIfNeverNullish(objectToCheck, strict)
                  IN  IF check.isNeverNullish
                      THEN [found |-> TRUE, node |-> memberExpr,
                            typeString |-> check.typeString,
                            checked |-> check.checked,
                            queried |-> {check.checked.range}]
                      ELSE [found |-> FALSE,
                            queried |-> {check.checked.range}]

RECURSIVE findInnermostTypeOfLink(_, _)

(* A variant that renders the type of the link it reports instead of the   *)
(* type of the link's object.                                              *)
findInnermostTypeOfLink(memberExpr, strict) ==
    IF ~memberExpr.optional THEN NoResult
    ELSE LET objectToCheck == memberExpr.object
         IN  IF objectToCheck.type = "MemberExpression" /\ objectToCheck.optional
             THEN findInnermostTypeOfLink(objectToCheck, strict)
             ELSE IF objectToCheck.type = "ChainExpression"
             THEN NoResult
             ELSE IF objectToCheck.type = "CallExpression"
                     /\ objectToCheck.optional
             THEN NoResult
             ELSE LET check == checkIfNeverNullish(objectToCheck, strict)
                  IN  IF check.isNeverNullish
                      THEN [found |-> TRUE, node |-> memberExpr,
                            typeString |->
                                getTypeString(TypeOf(memberExpr, strict)),
                            checked |-> check.checked,
                            queried |-> {check.checked.range}]
                      ELSE [found |-> FALSE,
                            queried |-> {check.checked.range}]

RECURSIVE findInnermostThroughCalls(_, _)

(* A variant that does not leave a guarded call to the visitor but checks  *)
(* it like any other object.                                               *)
findInnermostThroughCalls(memberExpr, strict) ==
    IF ~memberExpr.optional THEN NoResult
    ELSE LET objectToCheck == memberExpr.object
         IN  IF objectToCheck.type = "MemberExpression" /\ objectToCheck.optional
             THEN findInnermostThroughCalls(objectToCheck, strict)
             ELSE IF objectToCheck.type = "ChainExpression"
             THEN NoResult
             ELSE LET check == checkIfNeverNullish(objectToCheck, strict)
                  IN  IF check.isNeverNullish
                      THEN [found |-> TRUE, node |-> memberExpr,
                            typeString |-> check.typeString,
                            checked |-> check.checked,
                            queried |-> {check.checked.range}]
                      ELSE [found |-> FALSE,
                            queried |-> {check.checked.range}]

RECURSIVE findInnermostFallsThrough(_, _)

(* A variant that goes on to check the link itself when the search of its  *)
(* guarded object found nothing.                                           *)
findInnermostFallsThrough(memberExpr, strict) ==
    IF ~memberExpr.optional THEN NoResult
    ELSE LET objectToCheck == memberExpr.object
             innerResult ==
                 IF objectToCheck.type = "MemberExpression"
                    /\ objectToCheck.optional
                 THEN findInnermostFallsThrough(objectToCheck, strict)
                 ELSE NoResult
         IN  IF innerResult.found THEN innerResult
             ELSE IF objectToCheck.type = "ChainExpression"
             THEN NoResult
             ELSE IF objectToCheck.type = "CallExpression"
                     /\ objectToCheck.optional
             THEN NoResult
             ELSE LET check == checkIfNeverNullish(objectToCheck, strict)
                  IN  IF check.isNeverNullish
                      THEN [found |-> TRUE, node |-> memberExpr,
                            typeString |-> check.typeString,
                            checked |-> check.checked,
                            queried |-> innerResult.queried
                                        \cup {check.checked.range}]
                      ELSE [found |-> FALSE,
                            queried |-> innerResult.queried
                                        \cup {check.checked.range}]

RECURSIVE findInnermostIntoChains(_, _)

(* A variant that searches a chain wrapper in object position instead of   *)
(* leaving it to its own visit.                                            *)
findInnermostIntoChains(memberExpr, strict) ==
    IF ~memberExpr.optional THEN NoResult
    ELSE LET objectToCheck == memberExpr.object
         IN  IF objectToCheck.type = "MemberExpression" /\ objectToCheck.optional
             THEN findInnermostIntoChains(objectToCheck, strict)
             ELSE IF objectToCheck.type = "ChainExpression"
             THEN IF objectToCheck.expression.type = "MemberExpression"
                  THEN findInnermostIntoChains(objectToCheck.expression,
                                               strict)
                  ELSE NoResult
             ELSE IF objectToCheck.type = "CallExpression"
                     /\ objectToCheck.optional
             THEN NoResult
             ELSE LET check == checkIfNeverNullish(objectToCheck, strict)
                  IN  IF check.isNeverNullish
                      THEN [found |-> TRUE, node |-> memberExpr,
                            typeString |-> check.typeString,
                            checked |-> check.checked,
                            queried |-> {check.checked.range}]
                      ELSE [found |-> FALSE,
                            queried |-> {check.checked.range}]

RECURSIVE findInnermostUnnecessaryOptionalChain(_, _)

findInnermostUnnecessaryOptionalChain(memberExpr, strict) ==
    IF ~memberExpr.optional THEN NoResult
    ELSE LET objectToCheck == memberExpr.object
         IN  IF objectToCheck.type = "MemberExpression" /\ objectToCheck.optional
             THEN findInnermostUnnecessaryOptionalChain(objectToCheck, strict)
             ELSE IF objectToCheck.type = "ChainExpression"
             THEN NoResult
             ELSE IF objectToCheck.type = "CallExpression"
                     /\ objectToCheck.optional
             THEN NoResult
             ELSE LET check == checkIfNeverNullish(objectToCheck, strict)
                  IN  IF check.isNeverNullish
                      THEN [found |-> TRUE, node |-> memberExpr,
                            typeString |-> check.typeString,
                            checked |-> check.checked,
                            queried |-> {check.checked.range}]
                      ELSE [found |-> FALSE,
                            queried |-> {check.checked.range}]

(* sourceCode.getText(node)                                                *)
getText(src, node) == SubSeq(src, node.range[1], node.range[2])

RECURSIVE IndexOf(_, _, _)

(* The first position from i at which pattern occurs in s, 0 if none.      *)
IndexOf(s, pattern, i) ==
    IF i + Len(pattern) - 1 > Len(s) THEN 0
    ELSE IF SubSeq(s, i, i + Len(pattern) - 1) = pattern THEN i
    ELSE IndexOf(s, pattern, i + 1)

(* String.prototype.replace with a string pattern: the first occurrence.   *)
Replace(s, pattern, replacement) ==
    LET i == IndexOf(s, pattern, 1)
    IN  IF i = 0 THEN s
        ELSE SubSeq(s, 1, i - 1) \o replacement
             \o SubSeq(s, i + Len(pattern), Len(s))

RECURSIVE JoinArguments(_, _, _)

(* arguments.map(arg => sourceCode.getText(arg)).join(', ')                *)
JoinArguments(src, arguments, i) ==
    IF i > Len(arguments) THEN <<>>
    ELSE IF i = Len(arguments) THEN getText(src, arguments[i])
    ELSE getText(src, arguments[i]) \o <<",">>
         \o JoinArguments(src, arguments, i + 1)

(* fixer.replaceText(node, text)                                           *)
replaceText(node, fixedText) == [range |-> node.range, text |-> fixedText]

(* A variant that treats a computed access like a plain one.               *)
MemberFixDot(src, node) ==
    replaceText(node, Replace(getText(src, node), <<"?.">>, <<".">>))

(* A variant in which the replacement finds no match and the text of the   *)
(* node is written back as it is.                                          *)
MemberFixNoMatch(src, node) == replaceText(node, getText(src, node))

(* The fix of a reported member access: the text of the node with its      *)
(* first `?.[` (computed) or `?.` replaced.                                *)
MemberFix(src, node) ==
    LET memberText == getText(src, node)
        fixedText == IF node.computed
                     THEN Replace(memberText, <<"?.", "[">>, <<"[">>)
                     ELSE Replace(memberText, <<"?.">>, <<".">>)
    IN  replaceText(node, fixedText)

(* A variant that drops the first `?.` of the text instead of rebuilding   *)
(* the call.                                                               *)
CallFixFirstGuard(src, target, callExpr) ==
    replaceText(target, Replace(getText(src, target), <<"?.">>, <<>>))

(* The fix of a reported call: `target` is the node replaced, `callExpr`   *)
(* the call that is rebuilt.                                               *)
CallFix(src, target, callExpr) ==
    LET calleeText == getText(src, callExpr.callee)
        argsText == JoinArguments(src, callExpr.arguments, 1)
        fixedText == calleeText \o <<"(">> \o argsText \o <<")">>
    IN  replaceText(target, fixedText)

(* context.report: `checked` and `visited` record the operand whose type   *)
(* led to the report and the node whose visit made it.                     *)
Report(node, messageId, typeString, fix, checked, visited) ==
    [node |-> node, messageId |-> messageId, data |-> typeString,
     fix |-> fix, checked |-> checked, visited |-> visited.range]

(* A variant of the visitor whose call branch goes on to the callee check  *)
(* after it has reported a member access of the callee.                    *)
VisitChainNoReturn(src, node, strict) ==
    LET expression == node.expression
    IN  IF expression.type = "MemberExpression" /\ expression.optional
        THEN LET result == findInnermostUnnecessaryOptionalChain(expression,
                                                                  strict)
             IN  [reports |->
                     IF result.found
                     THEN <<Report(result.node, "unnecessaryOptionalChain",
                                   result.typeString,
                                   MemberFix(src, result.node),
                                   result.checked, node)>>
                     ELSE <<>>,
                  queried |-> result.queried]
        ELSE IF expression.type = "CallExpression" /\ expression.optional
        THEN LET calleeNode == expression.callee
                 result ==
                     IF calleeNode.type = "MemberExpression"
                        /\ calleeNode.optional
                     THEN findInnermostUnnecessaryOptionalChain(calleeNode,
                                                                strict)
                     ELSE NoResult
                 check == checkIfNeverNullish(calleeNode, strict)
             IN  [reports |->
                     (IF result.found
                      THEN <<Report(result.node, "unnecessaryOptionalChain",
                                    result.typeString,
                                    MemberFix(src, result.node),
                                    result.checked, node)>>
                      ELSE <<>>)
                     \o (IF check.isNeverNullish
                         THEN <<Report(node, "unnecessaryOptionalChain",
                                       check.typeString,
                                       CallFix(src, node, expression),
                                       check.checked, node)>>
                         ELSE <<>>),
                  queried |-> result.queried \cup {check.checked.range}]
        ELSE [reports |-> <<>>, queried |-> {}]

(* The ChainExpression visitor: what it reports and which nodes it had     *)
(* typed.                                                                  *)
VisitChain(src, node, strict) ==
    LET expression == node.expression
    IN  IF expression.type = "MemberExpression" /\ expression.optional
        THEN LET result == findInnermostUnnecessaryOptionalChain(expression,
                                                                  strict)
                 object == expression.object
             IN  IF result.found
                 THEN [reports |->
                          <<Report(result.node, "unnecessaryOptionalChain",
                                   result.typeString,
                                   MemberFix(src, result.node),
                                   result.checked, node)>>,
                       queried |-> result.queried]
                 ELSE IF object.type = "CallExpression" /\ object.optional
                 THEN LET calleeCheck ==
                              checkIfNeverNullish(object.callee, strict)
                      IN  [reports |->
                              IF calleeCheck.isNeverNullish
                              THEN <<Report(object,
                                            "unnecessaryOptionalChain",
                                            calleeCheck.typeString,
                                            CallFix(src, object, object),
                                            calleeCheck.checked, node)>>
                              ELSE <<>>,
                           queried |-> result.queried
                                       \cup {calleeCheck.checked.range}]
                 ELSE [reports |-> <<>>, queried |-> result.queried]
        ELSE IF expression.type = "CallExpression" /\ expression.optional
        THEN LET calleeNode == expression.callee
                 result ==
                     IF calleeNode.type = "MemberExpression"
                        /\ calleeNode.optional
                     THEN findInnermostUnnecessaryOptionalChain(calleeNode,
                                                                strict)
                     ELSE NoResult
                 check == checkIfNeverNullish(calleeNode, strict)
             IN  IF result.found
                 THEN [reports |->
                          <<Report(result.node, "unnecessaryOptionalChain",
                                   result.typeString,
                                   MemberFix(src, result.node),
                                   result.checked, node)>>,
                       queried |-> result.queried]
                 ELSE [reports |->
                          IF check.isNeverNullish
                          THEN <<Report(node, "unnecessaryOptionalChain",
                                        check.typeString,
                                        CallFix(src, node, expression),
                                        check.checked, node)>>
                          ELSE <<>>,
                       queried |-> result.queried
                                   \cup {check.checked.range}]
        ELSE [reports |-> <<>>, queried |-> {}]

(* A variant of the visitor that also looks up the type of the right       *)
(* operand.                                                                *)
VisitLogicalBothOperands(src, node, strict) ==
    IF node.operator = "??"
    THEN LET left == node.left
             check == checkIfNeverNullish(left, strict)
             other == checkIfNeverNullish(node.right, strict)
         IN  [reports |->
                 IF check.isNeverNullish
                 THEN <<Report(node, "unnecessaryNullishCoalesce",
                               check.typeString,
                               replaceText(node, getText(src, left)),
                               check.checked, node)>>
                 ELSE <<>>,
              queried |-> {check.checked.range, other.checked.range}]
    ELSE [reports |-> <<>>, queried |-> {}]

(* A variant of the visitor that leaves a `??` alone while its left         *)
(* operand is a chain.                                                     *)
VisitLogicalSkipsChain(src, node, strict) ==
    IF node.operator = "??" /\ node.left.type # "ChainExpression"
    THEN LET left == node.left
             check == checkIfNeverNullish(left, strict)
         IN  [reports |->
                 IF check.isNeverNullish
                 THEN <<Report(node, "unnecessaryNullishCoalesce",
                               check.typeString,
                               replaceText(node, getText(src, left)),
                               check.checked, node)>>
                 ELSE <<>>,
              queried |-> {check.checked.range}]
    ELSE [reports |-> <<>>, queried |-> {}]

(* The LogicalExpression visitor.                                          *)
VisitLogical(src, node, strict) ==
    IF node.operator = "??"
    THEN LET left == node.left
             check == checkIfNeverNullish(left, strict)
         IN  [reports |->
                 IF check.isNeverNullish
                 THEN <<Report(node, "unnecessaryNullishCoalesce",
                               check.typeString,
                               replaceText(node, getText(src, left)),
                               check.checked, node)>>
                 ELSE <<>>,
              queried |-> {check.checked.range}]
    ELSE [reports |-> <<>>, queried |-> {}]

(* (compilerOptions.strictNullChecks ?? false) || (compilerOptions.strict  *)
(* ?? false)                                                               *)
hasStrictNullChecks(c) == c.strictNullChecks = "true" \/ c.strict = "true"

NoFix == [range |-> <<0, 0>>, text |-> <<>>]

(* The report of create() when the checks cannot run: at line 1, column 0, *)
(* without a fix.                                                          *)
ConfigReport ==
    [node |-> NoNode, messageId |-> "requiresStrictNullChecks", data |-> "",
     fix |-> NoFix, checked |-> NoNode, visited |-> <<0, 0>>]

(* Whether create() returns the two visitors rather than {}.               *)
RegistersVisitors(c) == c.program /\ hasStrictNullChecks(c)

----------------------------------------------------------------------------
(* The host: traversal, fix application, repeated passes.                  *)

RECURSIVE Listened(_)
RECURSIVE ListenedAll(_, _)

ListenedAll(nodes, i) ==
    IF i > Len(nodes) THEN <<>>
    ELSE Listened(nodes[i]) \o ListenedAll(nodes, i + 1)

(* The nodes of the tree that have a visitor, in traversal order.          *)
Listened(node) ==
    CASE node.type = "Identifier" -> <<>>
      [] node.type = "MemberExpression" ->
            Listened(node.object) \o Listened(node.property)
      [] node.type = "CallExpression" ->
            Listened(node.callee) \o ListenedAll(node.arguments, 1)
      [] node.type = "LogicalExpression" ->
            <<node>> \o Listened(node.left) \o Listened(node.right)
      [] node.type = "ChainExpression" ->
            <<node>> \o Listened(node.expression)
      [] node.type = "SequenceExpression" ->
            ListenedAll(node.expressions, 1)

(* A variant that orders the fixes from the end of the text.               *)
FixBeforeFromEnd(a, b) ==
    \/ a.range[1] > b.range[1]
    \/ a.range[1] = b.range[1] /\ a.range[2] > b.range[2]

FixBefore(a, b) ==
    \/ a.range[1] < b.range[1]
    \/ a.range[1] = b.range[1] /\ a.range[2] < b.range[2]

RECURSIVE InsertFix(_, _, _)

InsertFix(sorted, f, i) ==
    IF i > Len(sorted) THEN Append(sorted, f)
    ELSE IF FixBefore(f, sorted[i])
    THEN SubSeq(sorted, 1, i - 1) \o <<f>> \o SubSeq(sorted, i, Len(sorted))
    ELSE InsertFix(sorted, f, i + 1)

RECURSIVE SortFixes(_, _)

(* The fixes of the first i reports, ordered by start and then by end of   *)
(* their range; reports without a fix have none.                           *)
SortFixes(rs, i) ==
    IF i = 0 THEN <<>>
    ELSE IF rs[i].fix = NoFix THEN SortFixes(rs, i - 1)
    ELSE InsertFix(SortFixes(rs, i - 1), rs[i].fix, 1)

RECURSIVE SelectFixes(_, _, _)

(* The host takes the sorted fixes in turn and skips a fix that starts     *)
(* inside the text an earlier one replaced.                                *)
SelectFixes(fixes, i, lastEnd) ==
    IF i > Len(fixes) THEN <<>>
    ELSE IF fixes[i].range[1] <= lastEnd
    THEN SelectFixes(fixes, i + 1, lastEnd)
    ELSE <<fixes[i]>> \o SelectFixes(fixes, i + 1, fixes[i].range[2])

RECURSIVE Output(_, _, _, _)

Output(src, fixes, i, pos) ==
    IF i > Len(fixes) THEN SubSeq(src, pos, Len(src))
    ELSE SubSeq(src, pos, fixes[i].range[1] - 1) \o fixes[i].text
         \o Output(src, fixes, i + 1, fixes[i].range[2] + 1)

----------------------------------------------------------------------------
(* The files analysed.                                                     *)

MaxLinks == 3

StrictConfig ==
    [program |-> TRUE, strictNullChecks |-> "true", strict |-> "undefined"]

Configs ==
    [program : BOOLEAN, strictNullChecks : {"undefined", "true", "false"},
     strict : {"undefined", "true", "false"}]

Props == {"o", "n"}

Keys == {<<"o">>}

ArgLists == {<<>>, <<"n", "?.", "o", ",", "o">>}

MemberLinks == {<<q, p>> : q \in {".", "?."}, p \in Props}

ComputedLinks ==
    {<<"[">> \o k \o <<"]">> : k \in Keys}
    \cup {<<"?.", "[">> \o k \o <<"]">> : k \in Keys}

CallLinks ==
    {<<"(">> \o a \o <<")">> : a \in ArgLists}
    \cup {<<"?.", "(">> \o a \o <<")">> : a \in ArgLists}

Links == MemberLinks \cup ComputedLinks \cup CallLinks

RECURSIVE Chains(_, _, _)

(* A base followed by at most n links.                                     *)
Chains(bases, links, n) ==
    IF n = 0 THEN {<<b>> : b \in bases}
    ELSE Chains(bases, links, n - 1)
         \cup {c \o l : c \in Chains(bases, links, n - 1), l \in links}

Small == Chains({"o", "n"}, MemberLinks, 1)

Coalesce1 == {x \o <<"??">> \o <<y>> : x \in Small, y \in {"o", "n"}}

Coalesce2 == {x \o <<"??", "o">> : x \in Coalesce1}

ParenTails ==
    {<<>>, <<"?.", "(", ")">>, <<"??", "o">>} \cup MemberLinks

Parenthesized ==
    {<<"(">> \o x \o <<")">> \o t : x \in Small \cup Coalesce1, t \in ParenTails}

Variety ==
    {<<x>> \o t : x \in Names,
                  t \in {<<>>, <<"?.", "o">>, <<"?.", "[", "o", "]">>,
                         <<"?.", "(", ")">>, <<"??", "o">>}}

SmallInputs == Small \cup Coalesce1 \cup Variety

(* A comma expression in parentheses as the left operand of a `??`: the    *)
(* whole file, the left operand of a further `??`, the only argument of a  *)
(* call, the object of a member access.                                    *)
CommaLefts ==
    {<<"(", a, ",", b, ")", "??", "o">> : a, b \in {"o", "n"}}

InContext ==
    {x : x \in CommaLefts}
    \cup {x \o <<"??", "o">> : x \in CommaLefts}
    \cup {<<"o", "(">> \o x \o <<")">> : x \in CommaLefts}
    \cup {<<"(">> \o x \o <<")", ".", "o">> : x \in CommaLefts}

Inputs ==
    Chains({"o", "n", "g"}, Links, MaxLinks) \cup Coalesce2 \cup Parenthesized
    \cup SmallInputs \cup InContext

----------------------------------------------------------------------------
Init ==
    /\ \/ cfg = StrictConfig /\ text \in Inputs
       \/ cfg \in Configs /\ text \in SmallInputs
    /\ pc = "create"
    /\ ast = NoNode
    /\ queue = <<>>
    /\ reports = <<>>
    /\ queried = {}
    /\ applied = <<>>
    /\ pass = 1
    /\ text0 = text

Strict == StrictNullChecksInEffect(cfg)

(* A variant in which the findings of the pass before are still there when *)
(* the visitors start.                                                     *)
CreateKeepsReports ==
    /\ pc = "create"
    /\ ast' = Parse(text).node
    /\ IF RegistersVisitors(cfg)
       THEN /\ reports' = reports
            /\ queue' = Listened(ast')
       ELSE /\ reports' = <<ConfigReport>>
            /\ queue' = <<>>
    /\ queried' = {}
    /\ pc' = "traverse"
    /\ UNCHANGED <<text, cfg, applied, pass, text0>>

(* The host parses the text and calls create(): without a program or       *)
(* without strict null checks create() reports once and returns no         *)
(* visitor.                                                                *)
Create ==
    /\ pc = "create"
    /\ ast' = Parse(text).node
    /\ IF RegistersVisitors(cfg)
       THEN /\ reports' = <<>>
            /\ queue' = Listened(ast')
       ELSE /\ reports' = <<ConfigReport>>
            /\ queue' = <<>>
    /\ queried' = {}
    /\ pc' = "traverse"
    /\ UNCHANGED <<text, cfg, applied, pass, text0>>

VisitChainExpression ==
    /\ pc = "traverse"
    /\ queue # <<>>
    /\ Head(queue).type = "ChainExpression"
    /\ LET v == VisitChain(text, Head(queue), Strict)
       IN  /\ reports' = reports \o v.reports
           /\ queried' = queried \cup v.queried
    /\ queue' = Tail(queue)
    /\ UNCHANGED <<text, cfg, pc, ast, applied, pass, text0>>

VisitLogicalExpression ==
    /\ pc = "traverse"
    /\ queue # <<>>
    /\ Head(queue).type = "LogicalExpression"
    /\ LET v == VisitLogical(text, Head(queue), Strict)
       IN  /\ reports' = reports \o v.reports
           /\ queried' = queried \cup v.queried
    /\ queue' = Tail(queue)
    /\ UNCHANGED <<text, cfg, pc, ast, applied, pass, text0>>

Selected == SelectFixes(SortFixes(reports, Len(reports)), 1, 0)

(* The end of a pass in which no fix is to be applied: the host stops.     *)
Finish ==
    /\ pc = "traverse"
    /\ queue = <<>>
    /\ Selected = <<>>
    /\ pc' = "done"
    /\ applied' = <<>>
    /\ UNCHANGED <<text, cfg, ast, queue, reports, queried, pass, text0>>

(* The end of a pass with fixes: the host applies them and lints the new   *)
(* text again, unless it no longer parses.                                 *)
ApplyFixes ==
    /\ pc = "traverse"
    /\ queue = <<>>
    /\ Selected # <<>>
    /\ applied' = Selected
    /\ text' = Output(text, Selected, 1, 1)
    /\ IF Parse(text').ok
       THEN pc' = "create" /\ pass' = pass + 1
       ELSE pc' = "broken" /\ pass' = pass
    /\ UNCHANGED <<cfg, ast, queue, reports, queried, text0>>

Next ==
    \/ Create
    \/ VisitChainExpression
    \/ VisitLogicalExpression
    \/ Finish
    \/ ApplyFixes

Spec == Init /\ [][Next]_vars

MaxPasses == 5

(* The host lints the text once more without having changed it: after a    *)
(* pass that applied nothing, or instead of applying the fixes of a pass.  *)
Rerun ==
    /\ \/ pc = "done"
       \/ pc = "traverse" /\ queue = <<>>
    /\ pass < MaxPasses
    /\ pc' = "create"
    /\ pass' = pass + 1
    /\ applied' = <<>>
    /\ UNCHANGED <<text, cfg, ast, queue, reports, queried, text0>>

NextRerun == Next \/ Rerun

RerunSpec == Init /\ [][NextRerun]_vars

----------------------------------------------------------------------------
(* The fix generator of the refactored rule, applied to any node.          *)

(* createOptionalChainFix: NoFix stands for the null it returns.           *)
createOptionalChainFix(node, src) ==
    LET nodeText == getText(src, node)
    IN  IF node.type = "MemberExpression" /\ node.computed
        THEN replaceText(node, Replace(nodeText, <<"?.", "[">>, <<"[">>))
        ELSE IF node.type = "MemberExpression"
        THEN replaceText(node, Replace(nodeText, <<"?.">>, <<".">>))
        ELSE IF node.type = "ChainExpression"
                /\ node.expression.type = "CallExpression"
        THEN LET callExpr == node.expression
             IN  replaceText(node,
                             getText(src, callExpr.callee) \o <<"(">>
                             \o JoinArguments(src, callExpr.arguments, 1)
                             \o <<")">>)
        ELSE IF node.type = "CallExpression" /\ node.optional
        THEN replaceText(node,
                         getText(src, node.callee) \o <<"(">>
                         \o JoinArguments(src, node.arguments, 1)
                         \o <<")">>)
        ELSE NoFix

reportUnnecessaryOptionalChain(src, node, typeString) ==
    Report(node, "unnecessaryOptionalChain", typeString,
           createOptionalChainFix(node, src), NoNode, node)

RECURSIVE AllNodes(_)
RECURSIVE AllNodesOf(_, _)

AllNodesOf(nodes, i) ==
    IF i > Len(nodes) THEN <<>>
    ELSE AllNodes(nodes[i]) \o AllNodesOf(nodes, i + 1)

(* Every node of the tree, a node before the nodes below it.               *)
AllNodes(node) ==
    <<node>> \o
    CASE node.type = "MemberExpression" ->
            AllNodes(node.object) \o AllNodes(node.property)
      [] node.type = "CallExpression" ->
            AllNodes(node.callee) \o AllNodesOf(node.arguments, 1)
      [] node.type = "LogicalExpression" ->
            AllNodes(node.left) \o AllNodes(node.right)
      [] node.type = "ChainExpression" -> AllNodes(node.expression)
      [] node.type = "SequenceExpression" ->
            AllNodesOf(node.expressions, 1)
      [] OTHER -> <<>>

(* A file has been parsed; each of its nodes in turn is handed to the      *)
(* report function.                                                        *)
FixInit ==
    /\ cfg = StrictConfig
    /\ text \in Inputs
    /\ pc = "fix"
    /\ ast = Parse(text).node
    /\ queue = AllNodes(ast)
    /\ reports = <<>>
    /\ queried = {}
    /\ applied = <<>>
    /\ pass = 1
    /\ text0 = text

ReportNode ==
    /\ pc = "fix"
    /\ queue # <<>>
    /\ reports' = Append(reports,
                         reportUnnecessaryOptionalChain(
                             text, Head(queue),
                             getTypeString(TypeOf(Head(queue), Strict))))
    /\ queue' = Tail(queue)
    /\ UNCHANGED <<text, cfg, pc, ast, queried, applied, pass, text0>>

FixSpec == FixInit /\ [][ReportNode]_vars

----------------------------------------------------------------------------
(* The rule of the plugin package: its ChainExpression visitor looks at    *)
(* the outermost link of a chain only and rewrites the text of the whole   *)
(* chain.                                                                  *)

(* A variant that rewrites a computed access like a plain one.             *)
ChainFixDot(src, node) ==
    replaceText(node, Replace(getText(src, node), <<"?.">>, <<".">>))

(* The fix of a reported chain whose outermost link is a member access.    *)
ChainFix(src, node) ==
    LET memberExpr == node.expression
        chainText == getText(src, node)
        fixedText == IF memberExpr.computed
                     THEN Replace(chainText, <<"?.", "[">>, <<"[">>)
                     ELSE Replace(chainText, <<"?.">>, <<".">>)
    IN  replaceText(node, fixedText)

(* The fix of a reported chain whose outermost link is a call.             *)
ChainCallFix(src, node) ==
    replaceText(node, Replace(getText(src, node), <<"?.">>, <<>>))

VisitChainWhole(src, node, strict) ==
    IF node.expression.type = "MemberExpression" /\ node.expression.optional
    THEN LET object == node.expression.object
             check == checkIfNeverNullish(object, strict)
         IN  [reports |->
                 IF check.isNeverNullish
                 THEN <<Report(node, "unnecessaryOptionalChain",
                               check.typeString, ChainFix(src, node),
                               check.checked, node)>>
                 ELSE <<>>,
              queried |-> {check.checked.range}]
    ELSE IF node.expression.type = "CallExpression"
            /\ node.expression.optional
    THEN LET callee == node.expression.callee
             check == checkIfNeverNullish(callee, strict)
         IN  [reports |->
                 IF check.isNeverNullish
                 THEN <<Report(node, "unnecessaryOptionalChain",
                               check.typeString, ChainCallFix(src, node),
                               check.checked, node)>>
                 ELSE <<>>,
              queried |-> {check.checked.range}]
    ELSE [reports |-> <<>>, queried |-> {}]

(* This rule's create() asks for no compiler option: the files are linted  *)
(* with strict null checks.                                                *)
WholeChainInit == Init /\ cfg = StrictConfig

VisitChainExpressionWhole ==
    /\ pc = "traverse"
    /\ queue # <<>>
    /\ Head(queue).type = "ChainExpression"
    /\ LET v == VisitChainWhole(text, Head(queue), Strict)
       IN  /\ reports' = reports \o v.reports
           /\ queried' = queried \cup v.queried
    /\ queue' = Tail(queue)
    /\ UNCHANGED <<text, cfg, pc, ast, applied, pass, text0>>

WholeChainNext ==
    \/ Create
    \/ VisitChainExpressionWhole
    \/ VisitLogicalExpression
    \/ Finish
    \/ ApplyFixes

WholeChainSpec == WholeChainInit /\ [][WholeChainNext]_vars

----------------------------------------------------------------------------
(* The oracle by itself: isNullish applied to a type, checkIfNeverNullish  *)
(* applied to a node of a parsed file.                                     *)

MaxTypeDepth == 3

BaseTypes ==
    {Ty(f) : f \in {"Any", "Unknown", "Null", "Undefined", "Object", "Never"}}

RECURSIVE Types(_)

(* The types with unions nested at most d deep: a union of a base type and *)
(* a type one level less deep, in either order.                            *)
Types(d) ==
    IF d = 0 THEN BaseTypes
    ELSE Types(d - 1)
         \cup {UnionTy(<<a, b>>) : a \in BaseTypes, b \in Types(d - 1)}
         \cup {UnionTy(<<b, a>>) : a \in BaseTypes, b \in Types(d - 1)}

OracleTexts == SmallInputs \cup Coalesce2 \cup Parenthesized

IsType(x) == "flags" \in DOMAIN x

(* The oracle is asked about one type, or about every node of one file.    *)
OracleInit ==
    /\ cfg = StrictConfig
    /\ pc = "oracle"
    /\ \/ text \in OracleTexts /\ queue = AllNodes(Parse(text).node)
       \/ text = <<"o">> /\ queue \in {<<t>> : t \in Types(MaxTypeDepth)}
    /\ ast = Parse(text).node
    /\ reports = <<>>
    /\ queried = {}
    /\ applied = <<>>
    /\ pass = 1
    /\ text0 = text

OracleOnType ==
    /\ pc = "oracle"
    /\ queue # <<>>
    /\ IsType(Head(queue))
    /\ reports' = Append(reports, [type |-> Head(queue),
                                   isNullish |-> isNullish(Head(queue))])
    /\ queue' = Tail(queue)
    /\ UNCHANGED <<text, cfg, pc, ast, queried, applied, pass, text0>>

OracleOnNode ==
    /\ pc = "oracle"
    /\ queue # <<>>
    /\ ~IsType(Head(queue))
    /\ LET check == checkIfNeverNullish(Head(queue), Strict)
       IN  /\ reports' = Append(reports, [node |-> Head(queue),
                                          check |-> check])
           /\ queried' = queried \cup {check.checked.range}
    /\ queue' = Tail(queue)
    /\ UNCHANGED <<text, cfg, pc, ast, applied, pass, text0>>

OracleNext == OracleOnType \/ OracleOnNode

OracleSpec == OracleInit /\ [][OracleNext]_vars

----------------------------------------------------------------------------
(* Notions the properties are stated with.                                 *)

RECURSIVE SubNodes(_)

(* The node and every node below it.                                       *)
SubNodes(node) ==
    {node} \cup
    CASE node.type = "MemberExpression" ->
            SubNodes(node.object) \cup SubNodes(node.property)
      [] node.type = "CallExpression" ->
            SubNodes(node.callee)
            \cup UNION {SubNodes(node.arguments[i]) :
                            i \in DOMAIN node.arguments}
      [] node.type = "LogicalExpression" ->
            SubNodes(node.left) \cup SubNodes(node.right)
      [] node.type = "ChainExpression" -> SubNodes(node.expression)
      [] node.type = "SequenceExpression" ->
            UNION {SubNodes(node.expressions[i]) :
                       i \in DOMAIN node.expressions}
      [] OTHER -> {}

(* The type can hold null or undefined: it is any, unknown, null or        *)
(* undefined, or a union with such a member at some depth.                 *)
PossiblyNullish(type) ==
    \E i \in DOMAIN Members(type) :
        Members(type)[i].flags \in {"Any", "Unknown", "Null", "Undefined"}

IsGuardedLink(node) ==
    node.type \in {"MemberExpression", "CallExpression"} /\ node.optional

(* The operand a reported node's guard protects.                           *)
GuardedOperand(node) ==
    CASE node.type = "MemberExpression" -> node.object
      [] node.type = "CallExpression" -> node.callee
      [] node.type = "ChainExpression" -> node.expression.callee
      [] node.type = "LogicalExpression" -> node.left

IsContent(r) ==
    r.messageId \in {"unnecessaryOptionalChain", "unnecessaryNullishCoalesce"}

(* All listened nodes of the current tree have been visited, and the text  *)
(* is still the text they were parsed from.                                *)
TraversalDone == (pc = "traverse" /\ queue = <<>>) \/ pc = "done"

Guards(toks) == Cardinality({i \in DOMAIN toks : toks[i] = "?."})

C2_FixedTextParses == applied # <<>> => Parse(text).ok

(* The position in the file of the `?.` of a guarded member access: the    *)
(* first `?.` after its object.                                            *)
OwnGuard(src, node) == IndexOf(src, <<"?.">>, node.object.range[2] + 1)

(* The text of the node with only its own guard changed: `?.` to `.`, and  *)
(* `?.[` to `[`.                                                           *)
OwnGuardRemoved(src, node) ==
    SubSeq(src, node.range[1], OwnGuard(src, node) - 1)
    \o (IF node.computed THEN <<>> ELSE <<".">>)
    \o SubSeq(src, OwnGuard(src, node) + 1, node.range[2])

(* C3: the fix of a reported member access changes exactly the reported    *)
(* link's own guard and no other token of the node's span.                 *)
C3_FixChangesOwnGuardOnly ==
    TraversalDone =>
        \A i \in DOMAIN reports :
            reports[i].node.type = "MemberExpression" =>
                reports[i].fix =
                    [range |-> reports[i].node.range,
                     text |-> OwnGuardRemoved(text, reports[i].node)]

IsPlainOperand(node) ==
    ~IsGuardedLink(node) /\ node.type # "ChainExpression"

(* The guarded links of the tree whose operand is a plain expression of    *)
(* never-nullish type.                                                     *)
RedundantGuards(tree) ==
    {n \in SubNodes(tree) :
        /\ IsGuardedLink(n)
        /\ IsPlainOperand(Operand(n))
        /\ ~PossiblyNullish(TypeOf(Operand(n), Strict))}

(* C4: when the passes have stopped, no guarded member access or call with *)
(* a plain operand of never-nullish type is left in the file.              *)
C4_NoRedundantGuardLeft ==
    (pc = "done" /\ RegistersVisitors(cfg)) => RedundantGuards(ast) = {}

RECURSIVE IsRedundantChain(_, _)

(* A run of guarded member links on a base, every operand of a guard of    *)
(* never-nullish type; a computed link has a plain name as key.            *)
IsRedundantChain(node, strict) ==
    /\ node.type = "MemberExpression"
    /\ node.optional
    /\ node.property.type = "Identifier"
    /\ ~PossiblyNullish(TypeOf(node.object, strict))
    /\ \/ node.object.type = "Identifier"
       \/ IsRedundantChain(node.object, strict)

(* The first pass started from such a chain, and the checks run.           *)
StartedFromRedundantChain ==
    /\ RegistersVisitors(cfg)
    /\ Parse(text0).node.type = "ChainExpression"
    /\ IsRedundantChain(Parse(text0).node.expression, Strict)

C6_ConfigDiagnostic ==
    pc \in {"traverse", "done"} =>
        IF ~cfg.program \/ ~StrictNullChecksInEffect(cfg)
        THEN reports = <<ConfigReport>> /\ queue = <<>> /\ queried = {}
        ELSE \A i \in DOMAIN reports :
                 reports[i].messageId # "requiresStrictNullChecks"

(* C7: a `??` expression is reported, as unnecessaryNullishCoalesce on the *)
(* whole expression, exactly if the type of its left operand is never      *)
(* nullish; its fix replaces the expression by the text of the left        *)
(* operand; the type of the right operand is never looked up.              *)
C7_CoalesceReportedIffLeftNeverNullish ==
    (TraversalDone /\ RegistersVisitors(cfg)) =>
        \A n \in SubNodes(ast) :
            n.type = "LogicalExpression" =>
                /\ ~PossiblyNullish(TypeOf(n.left, Strict))
                   <=> \E i \in DOMAIN reports : reports[i].node = n
                /\ \A i \in DOMAIN reports :
                       reports[i].node = n =>
                           /\ reports[i].messageId
                                  = "unnecessaryNullishCoalesce"
                           /\ reports[i].fix =
                                  [range |-> n.range,
                                   text |-> SubSeq(text, n.left.range[1],
                                                   n.left.range[2])]
                /\ n.right.range \notin queried

(* A `??` with a never-nullish left operand and a nullable right operand   *)
(* was reported.                                                           *)
C7_Witness ==
    /\ pc = "traverse"
    /\ queue = <<>>
    /\ text = <<"o", "??", "n">>
    /\ Len(reports) = 1
    /\ reports[1].fix = [range |-> <<1, 3>>, text |-> <<"o">>]

CallOf(node) ==
    IF node.type = "ChainExpression" THEN node.expression ELSE node

RECURSIVE ArgumentOffset(_, _, _)

(* Where the text of argument i starts in the rebuilt call, less one:      *)
(* after the callee, the "(" and the earlier arguments with their commas.  *)
ArgumentOffset(src, call, i) ==
    IF i = 1 THEN Len(getText(src, call.callee)) + 1
    ELSE ArgumentOffset(src, call, i - 1)
         + Len(getText(src, call.arguments[i - 1])) + 1

IsRebuiltCall(src, call, fixed) ==
    LET n == Len(call.arguments)
        calleeLen == Len(getText(src, call.callee))
    IN  /\ Len(fixed) >= calleeLen + 2
        /\ SubSeq(fixed, 1, calleeLen) = getText(src, call.callee)
        /\ fixed[calleeLen + 1] = "("
        /\ fixed[Len(fixed)] = ")"
        /\ \A i \in 1..n :
               LET off == ArgumentOffset(src, call, i)
                   arg == getText(src, call.arguments[i])
               IN  /\ SubSeq(fixed, off + 1, off + Len(arg)) = arg
                   /\ fixed[off + Len(arg) + 1]
                          = IF i < n THEN "," ELSE ")"
        /\ n = 0 => Len(fixed) = calleeLen + 2
        /\ n > 0 =>
               Len(fixed) = ArgumentOffset(src, call, n)
                            + Len(getText(src, call.arguments[n])) + 1

(* C8: the fix of a reported guarded call replaces the span of the call by *)
(* the text of the callee, "(", the texts of the arguments in their order  *)
(* joined by commas, and ")".                                              *)
C8_CallFixRebuildsCall ==
    TraversalDone =>
        \A i \in DOMAIN reports :
            reports[i].node.type \in {"ChainExpression", "CallExpression"} =>
                /\ reports[i].fix.range = CallOf(reports[i].node).range
                /\ IsRebuiltCall(text, CallOf(reports[i].node),
                                 reports[i].fix.text)

(* A guarded call with a guard in its callee and in the first of its two   *)
(* arguments was reported.                                                 *)
C8_Witness ==
    /\ pc = "traverse"
    /\ queue = <<>>
    /\ text = <<"o", "?.", "o", ".", "o", "?.", "(", "n", "?.", "o", ",", "o",
                ")">>
    /\ Len(reports) = 1
    /\ reports[1].fix.text
           = <<"o", "?.", "o", ".", "o", "(", "n", "?.", "o", ",", "o", ")">>

RECURSIVE RemoveGuardsFromBase(_, _)

(* The text with its first k guards removed, counted from the left.        *)
RemoveGuardsFromBase(toks, k) ==
    IF k = 0 \/ toks = <<>> THEN toks
    ELSE IF Head(toks) = "?."
    THEN (IF Tok(toks, 2) \in {"[", "("} THEN <<>> ELSE <<".">>)
         \o RemoveGuardsFromBase(Tail(toks), k - 1)
    ELSE <<Head(toks)>> \o RemoveGuardsFromBase(Tail(toks), k)

Overlap(a, b) == a.range[1] <= b.range[2] /\ b.range[1] <= a.range[2]

Inside(a, b) == b.range[1] <= a.range[1] /\ a.range[2] <= b.range[2]

(* C10 as stated: the spans of two fixes proposed in one pass never        *)
(* overlap.                                                                *)
C10_ProposedFixesNeverOverlap ==
    \A i, j \in DOMAIN reports :
        (i < j /\ reports[i].fix # NoFix /\ reports[j].fix # NoFix) =>
            ~Overlap(reports[i].fix, reports[j].fix)

(* C10 as amended: two fixes proposed in one pass overlap only if they     *)
(* come from the visits of two different nodes, one span inside the other, *)
(* and the fixes the host applies in a pass never overlap.                 *)
C10_OverlapOnlyAcrossNestedVisits ==
    /\ \A i, j \in DOMAIN reports :
           (i < j /\ reports[i].fix # NoFix /\ reports[j].fix # NoFix
                  /\ Overlap(reports[i].fix, reports[j].fix)) =>
               /\ reports[i].visited # reports[j].visited
               /\ \/ Inside(reports[i].fix, reports[j].fix)
                  \/ Inside(reports[j].fix, reports[i].fix)
    /\ \A i, j \in DOMAIN applied :
           i < j => ~Overlap(applied[i], applied[j])

(* Two overlapping fixes were proposed in one pass and one was applied.    *)
C10_Witness ==
    /\ pc = "create"
    /\ pass = 2
    /\ Len(reports) = 2
    /\ Overlap(reports[1].fix, reports[2].fix)
    /\ Len(applied) = 1

(* The first pass started from `obj?.prop ?? fallback`, the chain not in   *)
(* parentheses, obj a name of never-nullish type and obj.prop of           *)
(* never-nullish type.                                                     *)
StartedFromChainInCoalesce ==
    /\ RegistersVisitors(cfg)
    /\ LET t == Parse(text0).node
       IN  /\ t.type = "LogicalExpression"
           /\ t.range = <<1, Len(text0)>>
           /\ t.left.type = "ChainExpression"
           /\ t.left.range[1] = t.range[1]
           /\ t.left.expression.type = "MemberExpression"
           /\ t.left.expression.optional
           /\ t.left.expression.object.type = "Identifier"
           /\ t.left.expression.property.type = "Identifier"
           /\ ~PossiblyNullish(TypeOf(t.left.expression.object, Strict))
           /\ ~PossiblyNullish(TypeOf(t.left, Strict))

MessageIds == {reports[i].messageId : i \in DOMAIN reports}

(* C11: for `obj?.prop ?? fallback` with obj and obj.prop never nullish     *)
(* the first pass reports the `??` and the chain, the text after pass 1 is *)
(* `obj.prop ?? fallback` and the text after pass 2 is `obj.prop`.         *)
C11_ChainInCoalesceTwoPasses ==
    StartedFromChainInCoalesce =>
        LET t == Parse(text0).node
            afterPass1 == RemoveGuardsFromBase(text0, 1)
        IN  /\ pc # "broken"
            /\ pass <= 3
            /\ (pass = 1 /\ pc = "traverse" /\ queue = <<>>) =>
                   /\ Len(reports) = 2
                   /\ MessageIds = {"unnecessaryNullishCoalesce",
                                    "unnecessaryOptionalChain"}
            /\ pass = 2 => text = afterPass1
            /\ pass = 3 => text = SubSeq(afterPass1, 1, t.left.range[2])
            /\ pc = "done" => pass = 3

C11_Witness ==
    /\ text0 = <<"o", "?.", "o", "??", "n">>
    /\ RegistersVisitors(cfg)
    /\ pc = "done"
    /\ pass = 3
    /\ text = <<"o", ".", "o">>

(* The first pass started from `(str ?? a) ?? b`, str a name of            *)
(* never-nullish type.                                                     *)
StartedFromNestedCoalesce ==
    /\ RegistersVisitors(cfg)
    /\ LET t == Parse(text0).node
       IN  /\ t.type = "LogicalExpression"
           /\ t.range = <<1, Len(text0)>>
           /\ t.left.type = "LogicalExpression"
           /\ t.left.range[1] > t.range[1]
           /\ t.left.left.type = "Identifier"
           /\ ~PossiblyNullish(TypeOf(t.left.left, Strict))

(* C12: for `(str ?? a) ?? b` with str never nullish the first pass        *)
(* reports both `??` expressions, the text after pass 1 is `str ?? a` and  *)
(* the text after pass 2 is `str`.                                         *)
C12_NestedCoalesceTwoPasses ==
    StartedFromNestedCoalesce =>
        LET t == Parse(text0).node
        IN  /\ pc # "broken"
            /\ pass <= 3
            /\ (pass = 1 /\ pc = "traverse" /\ queue = <<>>) =>
                   /\ Len(reports) = 2
                   /\ MessageIds = {"unnecessaryNullishCoalesce"}
                   /\ {reports[i].node.range : i \in DOMAIN reports}
                          = {t.range, t.left.range}
            /\ pass = 2 => text = getText(text0, t.left)
            /\ pass = 3 => text = getText(text0, t.left.left)
            /\ pc = "done" => pass = 3

C12_Witness ==
    /\ text0 = <<"(", "o", "??", "n", ")", "??", "o">>
    /\ RegistersVisitors(cfg)
    /\ pc = "done"
    /\ pass = 3
    /\ text = <<"o">>

(* C13: the type a content diagnostic names is the rendering of the        *)
(* inferred type of the operand that was checked: the object of the        *)
(* reported member access, the callee of the reported call, the left       *)
(* operand of the reported `??`.                                           *)
C13_DataIsTypeOfCheckedOperand ==
    \A i \in DOMAIN reports :
        IsContent(reports[i]) =>
            reports[i].data =
                TypeToString(TypeOf(GuardedOperand(reports[i].node), Strict))

(* A member access was reported whose own type renders differently from    *)
(* the type of its object.                                                 *)
C13_Witness ==
    /\ pc = "traverse"
    /\ queue = <<>>
    /\ text = <<"o", "?.", "n">>
    /\ Strict
    /\ Len(reports) = 1
    /\ reports[1].data = "T"
    /\ TypeToString(TypeOf(reports[1].node, Strict)) = "T | null"

RECURSIVE VisitAll(_, _, _, _)

(* What the visitors report for the nodes from the i-th on, each visit     *)
(* taken by itself.                                                        *)
VisitAll(src, nodes, i, strict) ==
    IF i > Len(nodes) THEN <<>>
    ELSE (IF nodes[i].type = "ChainExpression"
          THEN VisitChain(src, nodes[i], strict).reports
          ELSE VisitLogical(src, nodes[i], strict).reports)
         \o VisitAll(src, nodes, i + 1, strict)

(* The findings of one run of the rule as a function of the text and the   *)
(* configuration alone.                                                    *)
Lint(src, c) ==
    IF RegistersVisitors(c)
    THEN VisitAll(src, Listened(Parse(src).node), 1,
                  StrictNullChecksInEffect(c))
    ELSE <<ConfigReport>>

IsFixableShape(node) ==
    \/ node.type = "MemberExpression" /\ node.optional
    \/ node.type = "ChainExpression" /\ node.expression.type = "CallExpression"
    \/ node.type = "CallExpression" /\ node.optional

StartedFromComputedAfterMember ==
    /\ Len(text0) = 7
    /\ LET t == Parse(text0).node
       IN  /\ t.type = "ChainExpression"
           /\ t.expression.type = "MemberExpression"
           /\ t.expression.optional /\ t.expression.computed
           /\ t.expression.property.type = "Identifier"
           /\ t.expression.object.type = "MemberExpression"
           /\ t.expression.object.optional
           /\ ~t.expression.object.computed
           /\ t.expression.object.object.type = "Identifier"
           /\ ~PossiblyNullish(TypeOf(t.expression.object.object, Strict))
           /\ ~PossiblyNullish(TypeOf(t.expression.object, Strict))

CallsOnGuardedMember ==
    {c \in SubNodes(ast) :
        /\ c.type = "ChainExpression"
        /\ c.expression.type = "CallExpression"
        /\ c.expression.optional
        /\ c.expression.callee.type = "MemberExpression"
        /\ c.expression.callee.optional}

ReportsOfVisit(node) == {i \in DOMAIN reports : reports[i].visited = node.range}

(* The first pass started from `x.name?.method?.()`: a guarded call, the   *)
(* whole file, whose callee is a guarded non-computed member access on an  *)
(* unguarded object of never-nullish type.                                 *)
StartedFromCallOnGuardedMember ==
    /\ RegistersVisitors(cfg)
    /\ LET t == Parse(text0).node
       IN  /\ t.type = "ChainExpression"
           /\ t.range = <<1, Len(text0)>>
           /\ t.expression.type = "CallExpression"
           /\ t.expression.optional
           /\ t.expression.callee.type = "MemberExpression"
           /\ t.expression.callee.optional
           /\ ~t.expression.callee.computed
           /\ Guards(getText(text0, t.expression.callee.object)) = 0
           /\ ~PossiblyNullish(TypeOf(t.expression.callee.object, Strict))

(* C18: in the visit of a guarded call whose callee is a guarded member    *)
(* access the member chain of the callee is searched first; a finding of   *)
(* that search is the only report of the visit and the callee's type is    *)
(* not looked up; without one the call is reported exactly if the callee's *)
(* type is never nullish. So the guard of the call goes in a later pass    *)
(* than the guard of the member access.                                    *)
C18_MemberGuardBeforeCallGuard ==
    /\ (TraversalDone /\ RegistersVisitors(cfg)) =>
           \A c \in CallsOnGuardedMember :
               LET callee == c.expression.callee
                   r == findInnermostUnnecessaryOptionalChain(callee, Strict)
                   mine == ReportsOfVisit(c)
               IN  IF r.found
                   THEN /\ Cardinality(mine) = 1
                        /\ \A i \in mine : reports[i].node = r.node
                        /\ callee.range \notin queried
                   ELSE /\ Cardinality(mine) <= 1
                        /\ callee.range \in queried
                        /\ ~PossiblyNullish(TypeOf(callee, Strict))
                           <=> \E i \in mine : reports[i].node = c
    /\ StartedFromCallOnGuardedMember =>
           LET callee == Parse(text0).node.expression.callee
           IN  /\ pc # "broken"
               /\ pass = 2 =>
                      /\ text = RemoveGuardsFromBase(text0, 1)
                      /\ text[callee.range[2] + 1] = "?."
               /\ pass = 3 => text = RemoveGuardsFromBase(text0, 2)
               /\ pc = "done" =>
                      pass = IF PossiblyNullish(TypeOf(callee, Strict))
                             THEN 2 ELSE 3

(* `x.name?.method?.()` has lost the guard of the member access in the     *)
(* first pass and the guard of the call in the second.                     *)
C18_Witness ==
    /\ text0 = <<"o", ".", "o", "?.", "o", "?.", "(", ")">>
    /\ RegistersVisitors(cfg)
    /\ pc = "create"
    /\ pass = 3
    /\ text = <<"o", ".", "o", ".", "o", "(", ")">>

(* The chain wrappers of the tree around a guarded member access whose     *)
(* object is a guarded call.                                               *)
MembersOnGuardedCall ==
    {c \in SubNodes(ast) :
        /\ c.type = "ChainExpression"
        /\ c.expression.type = "MemberExpression"
        /\ c.expression.optional
        /\ c.expression.object.type = "CallExpression"
        /\ c.expression.object.optional}

(* The first pass started from `f?.(x)?.prop`, the whole file, the callee  *)
(* without a guard of its own and of never-nullish type.                   *)
StartedFromMemberOnGuardedCall ==
    /\ RegistersVisitors(cfg)
    /\ LET t == Parse(text0).node
       IN  /\ t.type = "ChainExpression"
           /\ t.range = <<1, Len(text0)>>
           /\ t.expression.type = "MemberExpression"
           /\ t.expression.optional
           /\ t.expression.object.type = "CallExpression"
           /\ t.expression.object.optional
           /\ Guards(getText(text0, t.expression.object.callee)) = 0
           /\ ~PossiblyNullish(TypeOf(t.expression.object.callee, Strict))

(* C19: for a guarded member access on a guarded call the call is reported *)
(* exactly if its callee is never nullish; the report is on the call node  *)
(* and its fix rebuilds the call alone, so the guard of the member access  *)
(* is still there after the pass.                                          *)
C19_GuardedCallReportedOnItsOwn ==
    /\ (TraversalDone /\ RegistersVisitors(cfg)) =>
           \A c \in MembersOnGuardedCall :
               LET call == c.expression.object
                   mine == ReportsOfVisit(c)
               IN  /\ ~PossiblyNullish(TypeOf(call.callee, Strict))
                      <=> mine # {}
                   /\ Cardinality(mine) <= 1
                   /\ \A i \in mine :
                          /\ reports[i].node = call
                          /\ reports[i].fix.range = call.range
                          /\ IsRebuiltCall(text, call, reports[i].fix.text)
                          /\ text[call.range[2] + 1] = "?."
    /\ StartedFromMemberOnGuardedCall =>
           LET call == Parse(text0).node.expression.object
           IN  /\ pass = 1 => pc # "broken"
               /\ pass = 2 =>
                      /\ applied # <<>> => Len(applied) = 1
                      /\ text = RemoveGuardsFromBase(text0, 1)
                      /\ text[call.range[2]] = "?."

(* `f?.(x, y)?.prop` became `f(x, y)?.prop` in the first pass.             *)
C19_Witness ==
    /\ text0 = <<"o", "?.", "(", "n", "?.", "o", ",", "o", ")", "?.", "o">>
    /\ RegistersVisitors(cfg)
    /\ pc = "create"
    /\ pass = 2
    /\ text = <<"o", "(", "n", "?.", "o", ",", "o", ")", "?.", "o">>

(* The guarded member links of the tree whose operand is a guarded member  *)
(* link.                                                                   *)
LinksOnGuardedLink ==
    {m \in SubNodes(ast) :
        /\ m.type = "MemberExpression"
        /\ m.optional
        /\ m.object.type = "MemberExpression"
        /\ m.object.optional}

(* C20: the search on a guarded member link whose operand is a guarded     *)
(* member link yields what the search on the operand yields; the type of   *)
(* the operand is not looked up, and the visit of a chain that ends in     *)
(* such a link reports the inner finding or nothing, never the link.       *)
C20_SearchReturnsInnerResult ==
    (TraversalDone /\ RegistersVisitors(cfg)) =>
        /\ \A m \in LinksOnGuardedLink :
               /\ findInnermostUnnecessaryOptionalChain(m, Strict)
                      = findInnermostUnnecessaryOptionalChain(m.object, Strict)
               /\ m.object.range \notin queried
               /\ \A i \in DOMAIN reports : reports[i].node # m
        /\ \A c \in SubNodes(ast) :
               (c.type = "ChainExpression"
                    /\ c.expression \in LinksOnGuardedLink) =>
                   LET inner == findInnermostUnnecessaryOptionalChain(
                                    c.expression.object, Strict)
                   IN  IF inner.found
                       THEN {reports[i].node : i \in ReportsOfVisit(c)}
                                = {inner.node}
                       ELSE ReportsOfVisit(c) = {}

(* A chain whose base is nullable was visited: the base was looked up, the *)
(* operand of the outer link was not, and nothing was reported.            *)
C20_Witness ==
    /\ pc = "done"
    /\ text = <<"n", "?.", "o", "?.", "o">>
    /\ Strict
    /\ queried = {<<1, 1>>}
    /\ reports = <<>>

(* The chain wrappers of the tree.                                         *)
ChainWrappers == {c \in SubNodes(ast) : c.type = "ChainExpression"}

SubjectOperator(src, r) ==
    IndexOf(src,
            IF r.messageId = "unnecessaryNullishCoalesce" THEN <<"??">>
            ELSE <<"?.">>,
            GuardedOperand(r.node).range[2] + 1)

(* C22: in one pass no guard is the subject of two diagnostics; a chain    *)
(* wrapper in object position and a guarded call in object position are    *)
(* left out of the member-chain search of the enclosing chain.             *)
C22_NoGuardReportedTwice ==
    (pc \in {"traverse", "done"} /\ RegistersVisitors(cfg)) =>
        /\ \A i, j \in DOMAIN reports :
               i < j =>
                   SubjectOperator(text, reports[i])
                       # SubjectOperator(text, reports[j])
        /\ \A i \in DOMAIN reports :
               text[SubjectOperator(text, reports[i])] \in {"?.", "??"}
        /\ \A c \in ChainWrappers :
               (c.expression.type = "MemberExpression"
                    /\ c.expression.optional
                    /\ (c.expression.object.type = "ChainExpression"
                        \/ (c.expression.object.type = "CallExpression"
                            /\ c.expression.object.optional))) =>
                   ~findInnermostUnnecessaryOptionalChain(c.expression,
                                                          Strict).found

(* A chain with a chain wrapper as object, both guards on never-nullish    *)
(* operands, was visited: the inner guard was reported, once, by the visit *)
(* of the inner wrapper.                                                   *)
C22_Witness ==
    /\ pc = "traverse"
    /\ queue = <<>>
    /\ pass = 1
    /\ text = <<"(", "o", "?.", "o", ")", "?.", "o">>
    /\ RegistersVisitors(cfg)
    /\ Len(reports) = 1
    /\ reports[1].node.range = <<2, 4>>
    /\ reports[1].visited = <<2, 4>>

RECURSIVE ChainLinks(_)

(* The links of one chain, from the given link down to the base: member    *)
(* accesses and calls, each the object or callee of the one before.  A     *)
(* chain wrapper in object position starts a chain of its own.             *)
ChainLinks(node) ==
    IF node.type \in {"MemberExpression", "CallExpression"}
    THEN {node} \cup ChainLinks(Operand(node))
    ELSE {}

(* The guarded links of the chain whose operand is of never-nullish type.  *)
RedundantLinks(c) ==
    {n \in ChainLinks(c.expression) :
        n.optional /\ ~PossiblyNullish(TypeOf(Operand(n), Strict))}

GuardPosition(src, link) == IndexOf(src, <<"?.">>, Operand(link).range[2] + 1)

(* C23: whenever the visit of a chain wrapper emits a diagnostic, the      *)
(* reported guard is a redundant guard of that chain and no redundant      *)
(* guard of the chain is closer to the base.                               *)
C23_ReportedGuardClosestToBase ==
    (pc \in {"traverse", "done"} /\ cfg.program /\ Strict) =>
        \A c \in ChainWrappers :
            \A i \in ReportsOfVisit(c) :
                \E n \in RedundantLinks(c) :
                    /\ GuardPosition(text, n)
                           = SubjectOperator(text, reports[i])
                    /\ \A m \in RedundantLinks(c) :
                           GuardPosition(text, n) <= GuardPosition(text, m)

Unwrapped(node) ==
    IF node.type = "ChainExpression" THEN node.expression ELSE node

(* C24: isNullish(type) is true exactly if the type is any, unknown, null  *)
(* or undefined or a union with such a member at some depth; for a node,   *)
(* isNeverNullish is the negation of that on the inferred type of the      *)
(* node, a chain wrapper unwrapped to its inner expression first.          *)
C24_OracleIsReferencePredicate ==
    pc = "oracle" =>
        \A i \in DOMAIN reports :
            IF "isNullish" \in DOMAIN reports[i]
            THEN reports[i].isNullish = PossiblyNullish(reports[i].type)
            ELSE /\ reports[i].check.checked = Unwrapped(reports[i].node)
                 /\ reports[i].check.checked.type # "ChainExpression"
                 /\ reports[i].check.isNeverNullish
                        = ~PossiblyNullish(
                               TypeOf(Unwrapped(reports[i].node), Strict))
                 /\ reports[i].check.typeString
                        = TypeToString(
                              TypeOf(Unwrapped(reports[i].node), Strict))

(* The oracle was asked about a union whose only nullish member is a       *)
(* member of a union inside a union inside it, and answered true.          *)
C24_Witness ==
    /\ pc = "oracle"
    /\ queue = <<>>
    /\ Len(reports) = 1
    /\ "isNullish" \in DOMAIN reports[1]
    /\ reports[1].type
           = UnionTy(<<ObjectTy,
                       UnionTy(<<UnionTy(<<Ty("Never"), Ty("Null")>>),
                                 ObjectTy>>)>>)
    /\ reports[1].isNullish

(* C25: a content finding is made only when strict null checking is in     *)
(* effect for the session; with `strict: true` and an explicit             *)
(* `strictNullChecks: false` a pass reports requiresStrictNullChecks once, *)
(* looks up no type and reports nothing else.                              *)
C25_ContentChecksOnlyWhenInEffect ==
    /\ \A i \in DOMAIN reports :
           IsContent(reports[i]) => StrictNullChecksInEffect(cfg)
    /\ (pc \in {"traverse", "done"} /\ cfg.program /\ cfg.strict = "true"
            /\ cfg.strictNullChecks = "false") =>
           /\ reports = <<ConfigReport>>
           /\ queried = {}

RECURSIVE Value(_, _)

(* The value of an expression, as a term: names, member accesses and calls *)
(* stand for themselves; a `??` whose left operand is of never-nullish     *)
(* type has the value of its left operand; a comma expression has the      *)
(* value of its last expression, and the names before it, which have no    *)
(* effect, are left out.                                                   *)
Value(node, strict) ==
    CASE node.type = "Identifier" ->
            [type |-> "Identifier", name |-> node.name]
      [] node.type = "MemberExpression" ->
            [type |-> "MemberExpression",
             object |-> Value(node.object, strict),
             property |-> Value(node.property, strict),
             computed |-> node.computed, optional |-> node.optional]
      [] node.type = "CallExpression" ->
            [type |-> "CallExpression",
             callee |-> Value(node.callee, strict),
             arguments |-> [i \in DOMAIN node.arguments |->
                               Value(node.arguments[i], strict)],
             optional |-> node.optional]
      [] node.type = "LogicalExpression" ->
            IF ~PossiblyNullish(TypeOf(node.left, strict))
            THEN Value(node.left, strict)
            ELSE [type |-> "LogicalExpression",
                  left |-> Value(node.left, strict),
                  right |-> Value(node.right, strict)]
      [] node.type = "ChainExpression" ->
            [type |-> "ChainExpression",
             expression |-> Value(node.expression, strict)]
      [] node.type = "SequenceExpression" ->
            LET effects == SelectSeq(SubSeq(node.expressions, 1,
                                            Len(node.expressions) - 1),
                                     LAMBDA e : e.type # "Identifier")
                last == node.expressions[Len(node.expressions)]
            IN  IF effects = <<>> THEN Value(last, strict)
                ELSE [type |-> "SequenceExpression",
                      expressions |->
                          [i \in 1..(Len(effects) + 1) |->
                              IF i <= Len(effects)
                              THEN Value(effects[i], strict)
                              ELSE Value(last, strict)]]

(* The reports of the pass whose fix is the one fix that was applied.      *)
AppliedCoalesce ==
    {i \in DOMAIN reports :
        /\ reports[i].messageId = "unnecessaryNullishCoalesce"
        /\ applied = <<reports[i].fix>>}

(* C26: after a pass whose one applied fix is the fix of a `??`, the text  *)
(* parses to an expression with the value of the expression before the     *)
(* fix, also when the left operand is written in parentheses and the       *)
(* parentheses go with the fix.                                            *)
C26_CoalesceFixPreservesGrouping ==
    (pc \in {"create", "broken"} /\ cfg.program /\ Strict) =>
        \A i \in AppliedCoalesce :
            /\ Parse(text).ok
            /\ Value(Parse(text).node, Strict) = Value(ast, Strict)

Operators(toks) == Cardinality({i \in DOMAIN toks : toks[i] \in {"?.", "??"}})

(* Every fix proposed in the pass leaves fewer operators in its span than  *)
(* the span has.                                                           *)
EveryFixRemovesAnOperator ==
    \A i \in DOMAIN reports :
        reports[i].fix # NoFix =>
            Operators(reports[i].fix.text)
                < Operators(SubSeq(text, reports[i].fix.range[1],
                                   reports[i].fix.range[2]))

(* A pass has ended with no finding that carries a fix, or with a text the *)
(* host cannot lint again.                                                 *)
PassesStopped ==
    \/ pc = "done" /\ \A i \in DOMAIN reports : reports[i].fix = NoFix
    \/ pc = "broken"

(* The guard of one of the host's steps holds: create() is to be called,   *)
(* a node with a visitor is waiting, or the pass is to be ended.           *)
HostCanStep ==
    \/ pc = "create"
    \/ /\ pc = "traverse"
       /\ queue # <<>>
       /\ Head(queue).type \in {"ChainExpression", "LogicalExpression"}
    \/ pc = "traverse" /\ queue = <<>>

====
